---- MODULE Spec2Model ----
(***************************************************************************)
(* Venn-Abers calibration (hiclass/_calibration): the inductive predictor  *)
(* (_InductiveVennAbersCalibrator), the cross predictor                    *)
(* (_CrossVennAbersCalibrator) and the dispatcher (_Calibrator).           *)
(*                                                                         *)
(* Scores are only ever compared, so they are modelled as integers.        *)
(* Cumulative-sum-diagram points have integer coordinates; slopes and      *)
(* probabilities are exact rationals <<num, den>> in lowest terms with     *)
(* den > 0.  A division by zero (numpy: inf/nan plus a warning, never an   *)
(* exception) is the pair <<sign(num), 0>>.                                *)
(***************************************************************************)
EXTENDS Integers, Sequences, FiniteSets, TLC

VARIABLES ivap, cvap, cal, data, caldata, out

vars == <<ivap, cvap, cal, data, caldata, out>>

----------------------------------------------------------------------------
(* Bounds of the model *)

MaxN == 3          \* calibration pairs handed to IVAP.fit
MaxScore == 3      \* distinct raw score values 1..MaxScore

Scores == 1..MaxScore
TestScores == 0..(MaxScore + 1)    \* below, between, equal to, above
Labels == {0, 1}                   \* 1 is the positive label

----------------------------------------------------------------------------
(* Exact rational arithmetic standing for float64 *)

Abs(n) == IF n < 0 THEN -n ELSE n

Sign(n) == IF n < 0 THEN -1 ELSE IF n > 0 THEN 1 ELSE 0

RECURSIVE GCD(_, _)
GCD(a, b) == IF b = 0 THEN a ELSE GCD(b, a % b)

Frac(n, d) ==
    IF d = 0 THEN <<Sign(n), 0>>
    ELSE LET g == GCD(Abs(n), Abs(d))
         IN  <<(Sign(d) * n) \div g, Abs(d) \div g>>

Zero == <<0, 1>>
One == <<1, 1>>

IsFinite(a) == a[2] # 0

\* comparisons with nan are false, as in IEEE arithmetic
FLeq(a, b) == IsFinite(a) /\ IsFinite(b) /\ a[1] * b[2] <= b[1] * a[2]

FAdd(a, b) == Frac(a[1] * b[2] + b[1] * a[2], a[2] * b[2])
FSub(a, b) == Frac(a[1] * b[2] - b[1] * a[2], a[2] * b[2])
FDiv(a, b) == Frac(a[1] * b[2], a[2] * b[1])

----------------------------------------------------------------------------
(* numpy helpers *)

Range(s) == {s[i] : i \in DOMAIN s}

Size(a) == Cardinality(DOMAIN a)

Reverse(s) == [i \in 1..Len(s) |-> s[Len(s) + 1 - i]]

RECURSIVE SumSeq(_)
SumSeq(s) == IF s = <<>> THEN 0 ELSE Head(s) + SumSeq(Tail(s))

\* np.cumsum(s)[j]
CumSum(s, j) == SumSeq(SubSeq(s, 1, j))

RECURSIVE SortedSeq(_)
SortedSeq(S) ==
    IF S = {} THEN <<>>
    ELSE LET m == CHOOSE x \in S : \A z \in S : x <= z
         IN  <<m>> \o SortedSeq(S \ {m})

\* np.lexsort([y, scores]): a stable sort of the indices by (score, label)
RECURSIVE lexsort_insert(_, _, _, _)
lexsort_insert(sorted, i, y, scores) ==
    IF sorted = <<>> THEN <<i>>
    ELSE LET h == Head(sorted)
         IN  IF scores[i] < scores[h] \/ (scores[i] = scores[h] /\ y[i] < y[h])
             THEN <<i>> \o sorted
             ELSE <<h>> \o lexsort_insert(Tail(sorted), i, y, scores)

RECURSIVE lexsort_upto(_, _, _)
lexsort_upto(n, y, scores) ==
    IF n = 0 THEN <<>>
    ELSE lexsort_insert(lexsort_upto(n - 1, y, scores), n, y, scores)

lexsort(y, scores) == lexsort_upto(Len(scores), y, scores)

\* np.unique(a): the sorted distinct values
np_unique(a) == SortedSeq(Range(a))

\* np.unique(a, return_index=True): index of the first occurrence of each
np_unique_index(a) ==
    LET u == np_unique(a)
    IN  [j \in 1..Len(u) |->
            CHOOSE i \in 1..Len(a) : a[i] = u[j] /\ \A h \in 1..(i - 1) : a[h] # u[j]]

\* faulty variant: the counts are never requested, every weight is 1
np_unique_counts_ones(a) == [j \in 1..Len(np_unique(a)) |-> 1]

\* np.unique(a, return_counts=True)
np_unique_counts(a) ==
    LET u == np_unique(a)
    IN  [j \in 1..Len(u) |-> Cardinality({i \in 1..Len(a) : a[i] = u[j]})]

\* np.searchsorted(a, v, side): a is sorted
searchsorted(a, v, side) ==
    IF side = "left" THEN Cardinality({i \in 1..Len(a) : a[i] < v})
    ELSE Cardinality({i \in 1..Len(a) : a[i] <= v})

----------------------------------------------------------------------------
(* _InductiveVennAbersCalibrator.fit: local functions.                     *)
(* Python lists and arrays are functions over 0..len-1, so that indices    *)
(* read as in the source; stacks are sequences whose top is the last       *)
(* element.                                                                *)

Pop(stack) == SubSeq(stack, 1, Len(stack) - 1)
Top(stack) == stack[Len(stack)]
NextToTop(stack) == stack[Len(stack) - 1]

\* np.sum(ocl[np.where(ocs == s_j)])
matching_labels_sum(ocs, ocl, s_j) ==
    SumSeq([i \in 1..Len(ocs) |-> IF ocs[i] = s_j THEN ocl[i] ELSE 0])

\* y[j] of compute_csd: the positive-label rate of the j-th unique score
label_rate(un_el_counts, ocs, ocl, oucs, j) ==
    Frac(matching_labels_sum(ocs, ocl, oucs[j]), un_el_counts[j])

\* (y * un_el_counts)[j]: a whole number again
rate_times_count(un_el_counts, ocs, ocl, oucs, j) ==
    LET r == label_rate(un_el_counts, ocs, ocl, oucs, j)
    IN  (r[1] * un_el_counts[j]) \div r[2]

compute_csd(un_el, un_el_counts, ocs, ocl, oucs) ==
    LET k == Len(un_el)
        yw == [j \in 1..k |-> rate_times_count(un_el_counts, ocs, ocl, oucs, j)]
    IN  [i \in 0..k |->
            IF i = 0 THEN <<0, 0>>
            ELSE <<CumSum(un_el_counts, i), CumSum(yw, i)>>]

slope(top, next_to_top) ==
    Frac(next_to_top[2] - top[2], next_to_top[1] - top[1])

\* p[1] >= top[1] + cur_slope * (p[0] - top[0])
at_or_above(p, cur_slope, top, next_to_top) ==
    /\ IsFinite(cur_slope)
    /\ p[2] * cur_slope[2] >= top[2] * cur_slope[2] + cur_slope[1] * (p[1] - top[1])

\* np.cross(top - next_to_top, p_i - top)
cross(next_to_top, top, p_i) ==
    (top[1] - next_to_top[1]) * (p_i[2] - top[2])
        - (top[2] - next_to_top[2]) * (p_i[1] - top[1])

\* faulty variant: collinear points are kept on the stack
non_left_angle_turn_strict(next_to_top, top, p_i) == cross(next_to_top, top, p_i) < 0

non_left_angle_turn(next_to_top, top, p_i) == cross(next_to_top, top, p_i) <= 0

non_right_angle_turn(next_to_top, top, p_i) == cross(next_to_top, top, p_i) >= 0

\* while len(stack) > 1 and non_left_angle_turn(stack[-2], stack[-1], p): stack.pop()
RECURSIVE f1_init_pops(_, _)
f1_init_pops(stack, p) ==
    IF Len(stack) > 1 /\ non_left_angle_turn(NextToTop(stack), Top(stack), p)
    THEN f1_init_pops(Pop(stack), p)
    ELSE stack

RECURSIVE f1_init_scan(_, _, _)
f1_init_scan(stack, csd, i) ==
    IF i >= Size(csd) THEN stack
    ELSE f1_init_scan(Append(f1_init_pops(stack, csd[i]), csd[i]), csd, i + 1)

initialize_f1_corners(csd) == f1_init_scan(<<csd[0], csd[1]>>, csd, 2)

\* while len(stack) > 1 and non_right_angle_turn(stack[-2], stack[-1], p): stack.pop()
RECURSIVE f0_init_pops(_, _)
f0_init_pops(stack, p) ==
    IF Len(stack) > 1 /\ non_right_angle_turn(NextToTop(stack), Top(stack), p)
    THEN f0_init_pops(Pop(stack), p)
    ELSE stack

RECURSIVE f0_init_scan(_, _, _)
f0_init_scan(stack, csd, i) ==
    IF i < 0 THEN stack
    ELSE f0_init_scan(Append(f0_init_pops(stack, csd[i]), csd[i]), csd, i - 1)

initialize_f0_corners(csd) ==
    LET n == Size(csd)
    IN  f0_init_scan(<<csd[n - 1], csd[n - 2]>>, csd, n - 3)

point_addition(p1, p2) == <<p1[1] + p2[1], p1[2] + p2[2]>>
point_subtraction(p1, p2) == <<p1[1] - p2[1], p1[2] - p2[2]>>

\* while len(stack) > 1 and non_left_angle_turn(p_temp, stack[-1], stack[-2]): stack.pop()
RECURSIVE f1_pops(_, _)
f1_pops(stack, p) ==
    IF Len(stack) > 1 /\ non_left_angle_turn(p, Top(stack), NextToTop(stack))
    THEN f1_pops(Pop(stack), p)
    ELSE stack

\* the body of "for i in range(2, k_distinct + 2)"
RECURSIVE f1_loop(_, _, _, _, _)
f1_loop(F1, csd, stack, i, k) ==
    IF i >= k + 2 THEN F1
    ELSE LET s == slope(Top(stack), NextToTop(stack))
             p_temp == point_subtraction(point_addition(csd[i - 2], csd[i]), csd[i - 1])
             F1n == [F1 EXCEPT ![i - 1] = s]
             csdn == [csd EXCEPT ![i - 1] = p_temp]
         IN  IF at_or_above(p_temp, s, Top(stack), NextToTop(stack))
             THEN f1_loop(F1n, csdn, stack, i + 1, k)
             ELSE f1_loop(F1n, csdn, Append(f1_pops(Pop(stack), p_temp), p_temp), i + 1, k)

\* faulty variant: the slopes are stored one index too low
compute_f1_shifted(prev_stack, csd, k) ==
    LET F1 == f1_loop([i \in 0..k |-> Zero], csd, Reverse(prev_stack), 2, k)
    IN  [i \in 0..k |-> IF i < k THEN F1[i + 1] ELSE Zero]

compute_f1(prev_stack, csd, k) ==
    f1_loop([i \in 0..k |-> Zero], csd, Reverse(prev_stack), 2, k)

\* while len(stack) > 1 and non_right_angle_turn(csd[i], stack[-1], stack[-2]): stack.pop()
RECURSIVE f0_pops(_, _)
f0_pops(stack, p) ==
    IF Len(stack) > 1 /\ non_right_angle_turn(p, Top(stack), NextToTop(stack))
    THEN f0_pops(Pop(stack), p)
    ELSE stack

\* the body of "for i in range(k_distinct, 0, -1)"
RECURSIVE f0_loop(_, _, _, _)
f0_loop(F0, csd, stack, i) ==
    IF i <= 0 THEN F0
    ELSE LET s == slope(Top(stack), NextToTop(stack))
             p == point_subtraction(point_addition(csd[i - 1], csd[i + 1]), csd[i])
             F0n == [F0 EXCEPT ![i] = s]
             csdn == [csd EXCEPT ![i] = p]
         IN  IF at_or_above(p, s, Top(stack), NextToTop(stack))
             THEN f0_loop(F0n, csdn, stack, i - 1)
             ELSE f0_loop(F0n, csdn, Append(f0_pops(Pop(stack), p), p), i - 1)

\* faulty variant: the seeded stack is not turned over before the pass
compute_f0_unreversed(prev_stack, csd, k) ==
    f0_loop([i \in 0..k |-> Zero], csd, prev_stack, k)

compute_f0(prev_stack, csd, k) ==
    f0_loop([i \in 0..k |-> Zero], csd, Reverse(prev_stack), k)

\* csd_0 = csd_1.copy(); csd_0.append((csd_0[-1][0] + 1, csd_0[-1][1] + 0))
augment_csd_0(csd) ==
    LET n == Size(csd)
    IN  [i \in 0..n |-> IF i < n THEN csd[i] ELSE <<csd[n - 1][1] + 1, csd[n - 1][2] + 0>>]

\* csd_1.insert(0, (-1, -1))
augment_csd_1(csd) ==
    [i \in 0..Size(csd) |-> IF i = 0 THEN <<-1, -1>> ELSE csd[i - 1]]

----------------------------------------------------------------------------
(* _InductiveVennAbersCalibrator *)

\* __init__: only self.fitted exists
IvapInit ==
    [fitted |-> FALSE, attrs |-> {"fitted"}, k_distinct |-> 0,
     unique_elements |-> <<>>, F0 |-> <<>>, F1 |-> <<>>]

\* y = np.where(y == positive_label, 1, 0)
positive_mask(y) == [i \in 1..Len(y) |-> IF y[i] = 1 THEN 1 ELSE 0]

\* the locals of fit up to the two seeded stacks
FitLocals(y, scores) ==
    LET yb == positive_mask(y)
        order_idx == lexsort(yb, scores)
        ocs == [j \in 1..Len(order_idx) |-> scores[order_idx[j]]]
        ocl == [j \in 1..Len(order_idx) |-> yb[order_idx[j]]]
        un_el == np_unique(ocs)
        un_idx == np_unique_index(ocs)
        un_cnt == np_unique_counts(ocs)
        oucs == [j \in 1..Len(un_idx) |-> ocs[un_idx[j]]]
        csd == compute_csd(un_el, un_cnt, ocs, ocl, oucs)
        csd_0 == augment_csd_0(csd)
        csd_1 == augment_csd_1(csd)
    IN  [ordered_calibration_scores |-> ocs,
         ordered_calibration_labels |-> ocl,
         unique_elements |-> un_el,
         unique_element_counts |-> un_cnt,
         k_distinct |-> Len(un_idx),
         csd |-> csd, csd_0 |-> csd_0, csd_1 |-> csd_1,
         f1_stack |-> initialize_f1_corners(csd_1),
         f0_stack |-> initialize_f0_corners(csd_0)]

\* assert len(np.unique(y)) <= 2
IvapFitAsserts(y) == Cardinality(Range(y)) <= 2

\* the instance fit leaves behind; on a failed assertion nothing was assigned
IvapFitted(self, y, scores) ==
    IF ~IvapFitAsserts(y) THEN self
    ELSE LET loc == FitLocals(y, scores)
         IN  [fitted |-> TRUE,
              attrs |-> {"fitted", "k_distinct", "F1", "F0", "unique_elements"},
              k_distinct |-> loc.k_distinct,
              unique_elements |-> loc.unique_elements,
              F0 |-> compute_f0(loc.f0_stack, loc.csd_0, loc.k_distinct),
              F1 |-> compute_f1(loc.f1_stack, loc.csd_1, loc.k_distinct)]

\* lower and upper of predict_proba / predict_intervall for one score
lower_index(self, s) == searchsorted(self.unique_elements, s, "left")

upper_index(self, s) ==
    searchsorted(SubSeq(self.unique_elements, 1, Len(self.unique_elements) - 1), s, "right") + 1

\* faulty variant: p0 and p1 change places in the denominator
point_estimate_swapped(p0, p1) == FDiv(p1, FAdd(FSub(One, p1), p0))

\* p1 / (1 - p0 + p1)
point_estimate(p0, p1) == FDiv(p1, FAdd(FSub(One, p0), p1))

\* the values predict_proba returns (past the fitted check)
ivap_predict_proba(self, scores) ==
    [i \in 1..Len(scores) |->
        point_estimate(self.F0[lower_index(self, scores[i])],
                       self.F1[upper_index(self, scores[i])])]

\* the values predict_intervall returns: np.array(list(zip(p0, p1)))
ivap_predict_intervall(self, scores) ==
    [i \in 1..Len(scores) |->
        <<self.F0[lower_index(self, scores[i])], self.F1[upper_index(self, scores[i])]>>]

YOf(d) == [i \in 1..Len(d) |-> d[i][2]]
ScoresOf(d) == [i \in 1..Len(d) |-> d[i][1]]

----------------------------------------------------------------------------
(* Operations on the IVAP instance.  out is what the last call did:        *)
(* status "ok" with the returned value, or the exception raised.           *)

IvapFit(d) ==
    /\ ivap' = IvapFitted(ivap, YOf(d), ScoresOf(d))
    /\ out' = [op |-> "ivap.fit", arg |-> <<>>,
               status |-> IF IvapFitAsserts(YOf(d)) THEN "ok" ELSE "AssertionError",
               value |-> <<>>]
    /\ UNCHANGED <<cvap, cal, data, caldata>>

IvapPredictProba(scores) ==
    /\ out' = IF ~ivap.fitted
              THEN [op |-> "ivap.predict_proba", arg |-> scores,
                    status |-> "NotFittedError", value |-> <<>>]
              ELSE [op |-> "ivap.predict_proba", arg |-> scores,
                    status |-> "ok", value |-> ivap_predict_proba(ivap, scores)]
    /\ UNCHANGED <<ivap, cvap, cal, data, caldata>>

\* no fitted check: before fit, self.unique_elements does not exist
IvapPredictIntervall(scores) ==
    /\ out' = IF "unique_elements" \notin ivap.attrs
              THEN [op |-> "ivap.predict_intervall", arg |-> scores,
                    status |-> "AttributeError", value |-> <<>>]
              ELSE [op |-> "ivap.predict_intervall", arg |-> scores,
                    status |-> "ok", value |-> ivap_predict_intervall(ivap, scores)]
    /\ UNCHANGED <<ivap, cvap, cal, data, caldata>>

----------------------------------------------------------------------------
(* create_n_splits: sklearn's StratifiedKFold(n_splits).split(X, y) without *)
(* shuffling.  Classes are numbered by first appearance; the sorted class   *)
(* vector is dealt round-robin to the folds to fix how many samples of each *)
(* class a fold gets; the samples of a class then fill the folds in order.  *)

\* samples of the class of sample i that come before i
rank_in_class(y, i) == Cardinality({h \in 1..(i - 1) : y[h] = y[i]})

\* number of samples whose class first appears before the class of sample i
offset_of_class(y, i) ==
    LET first == CHOOSE h \in 1..Len(y) : y[h] = y[i] /\ \A g \in 1..(h - 1) : y[g] # y[i]
        earlier == {y[g] : g \in 1..(first - 1)}
    IN  Cardinality({h \in 1..Len(y) : y[h] \in earlier})

class_count(y, i) == Cardinality({h \in 1..Len(y) : y[h] = y[i]})

\* allocation[f][class of i]: sorted positions p = f mod n_splits held by the class
allocation(y, i, f, n_splits) ==
    LET lo == offset_of_class(y, i)
    IN  Cardinality({p \in lo..(lo + class_count(y, i) - 1) : p % n_splits = f})

\* test_folds[i]
test_fold(y, i, n_splits) ==
    LET r == rank_in_class(y, i)
        before(f) == SumSeq([g \in 1..f |-> allocation(y, i, g - 1, n_splits)])
    IN  CHOOSE f \in 0..(n_splits - 1) : before(f) <= r /\ r < before(f + 1)

\* the split raises ValueError: more splits than samples, or than members of every class
split_raises(y, n_splits) ==
    \/ n_splits > Len(y)
    \/ \A i \in 1..Len(y) : n_splits > class_count(y, i)

RECURSIVE test_folds_upto(_, _, _)
test_folds_upto(y, i, n_splits) ==
    IF i = 0 THEN <<>>
    ELSE Append(test_folds_upto(y, i - 1, n_splits), test_fold(y, i, n_splits))

\* the fold in whose calibration split each sample falls
test_folds(y, n_splits) == test_folds_upto(y, Len(y), n_splits)

\* x[cal_index] (in_cal) or x[train_index] (~in_cal) of fold f, in sample order
RECURSIVE take(_, _, _, _, _)
take(x, folds, f, in_cal, i) ==
    IF i > Len(x) THEN <<>>
    ELSE (IF (folds[i] = f) = in_cal THEN <<x[i]>> ELSE <<>>) \o take(x, folds, f, in_cal, i + 1)

\* splits[f] = (train, cal) for fold f of the sequence x, as create_n_splits pairs them
create_n_splits(x, y, n_folds) ==
    LET folds == test_folds(y, n_folds)
    IN  [f \in 0..(n_folds - 1) |->
            <<take(x, folds, f, FALSE, 1), take(x, folds, f, TRUE, 1)>>]

----------------------------------------------------------------------------
(* _CrossVennAbersCalibrator.  The estimator is external: the fold model's  *)
(* predict_proba(X_cal)[:, 1] is any score per calibration sample.  Every   *)
(* sample is in the calibration split of exactly one fold, so the scores    *)
(* the fold models will give are one score per sample: d[i][1].             *)

CvapInit(n_folds) ==
    [fitted |-> FALSE, attrs |-> {"fitted", "n_folds", "estimator_type", "estimator_params"},
     n_folds |-> n_folds, ivaps |-> <<>>]

\* assert len(np.unique(y)) == 2
CvapFitAsserts(y) == Cardinality(Range(y)) = 2

\* the exception fit raises before it assigns anything, or "ok"
CvapFitStatus(self, d) ==
    IF ~CvapFitAsserts(YOf(d)) THEN "AssertionError"
    ELSE IF split_raises(YOf(d), self.n_folds) THEN "ValueError"
    ELSE "ok"

\* if len(np.unique(y_train)) < 2 or len(np.unique(y_cal)) < 2: continue
fold_skipped(y_train, y_cal) ==
    Cardinality(Range(y_train)) < 2 \/ Cardinality(Range(y_cal)) < 2

\* the body of "for i in range(self.n_folds)", from fold i on
RECURSIVE cvap_fit_loop(_, _, _, _, _)
cvap_fit_loop(ivaps, splits_y, splits_s, i, n_folds) ==
    IF i >= n_folds THEN ivaps
    ELSE IF fold_skipped(splits_y[i][1], splits_y[i][2])
         THEN cvap_fit_loop(ivaps, splits_y, splits_s, i + 1, n_folds)
         ELSE cvap_fit_loop(
                  Append(ivaps, IvapFitted(IvapInit, splits_y[i][2], splits_s[i][2])),
                  splits_y, splits_s, i + 1, n_folds)

\* faulty variant: fit clears the fitted flag before it validates its input
CvapFitted_resetting(self, d) ==
    IF CvapFitStatus(self, d) # "ok" THEN [self EXCEPT !.fitted = FALSE]
    ELSE LET splits_y == create_n_splits(YOf(d), YOf(d), self.n_folds)
             splits_s == create_n_splits(ScoresOf(d), YOf(d), self.n_folds)
         IN  [self EXCEPT !.fitted = TRUE,
                          !.attrs = @ \cup {"ivaps"},
                          !.ivaps = cvap_fit_loop(<<>>, splits_y, splits_s, 0, self.n_folds)]

CvapFitted(self, d) ==
    IF CvapFitStatus(self, d) # "ok" THEN self
    ELSE LET splits_y == create_n_splits(YOf(d), YOf(d), self.n_folds)
             splits_s == create_n_splits(ScoresOf(d), YOf(d), self.n_folds)
         IN  [self EXCEPT !.fitted = TRUE,
                          !.attrs = @ \cup {"ivaps"},
                          !.ivaps = cvap_fit_loop(<<>>, splits_y, splits_s, 0, self.n_folds)]

\* A float the model holds exactly (val), or the unevaluated fusion of m >= 2
\* folds: gmean(p1) / (gmean(1 - p0) + gmean(p1)), gmean being the m-th root of
\* the product (p1 and q0 hold the products); over is the row by whose sum the
\* dispatcher divided it, if it did.
Exact(v) == [exact |-> TRUE, val |-> v, m |-> 0, p1 |-> Zero, q0 |-> Zero, over |-> <<>>]

Fused(m, p1, q0) == [exact |-> FALSE, val |-> Zero, m |-> m, p1 |-> p1, q0 |-> q0, over |-> <<>>]

RECURSIVE FProd(_)
FProd(s) ==
    IF s = <<>> THEN One
    ELSE LET t == FProd(Tail(s)) IN Frac(Head(s)[1] * t[1], Head(s)[2] * t[2])

\* p1_gm / (gmean(1 - p0) + p1_gm) for one score; res[c] is the (p0, p1) of fold c
fuse(res) ==
    LET p1 == [c \in 1..Len(res) |-> res[c][2]]
        q0 == [c \in 1..Len(res) |-> FSub(One, res[c][1])]
    IN  IF Len(res) = 1 THEN Exact(FDiv(p1[1], FAdd(q0[1], p1[1])))
        ELSE Fused(Len(res), FProd(p1), FProd(q0))

\* faulty variant: no fallback when no fold was retained
cvap_predict_proba_unguarded(self, scores) ==
    [i \in 1..Len(scores) |->
        fuse([c \in 1..Len(self.ivaps) |->
                 ivap_predict_intervall(self.ivaps[c], <<scores[i]>>)[1]])]

\* the values predict_proba returns (past the fitted check)
cvap_predict_proba(self, scores) ==
    IF Len(self.ivaps) = 0
    THEN [i \in 1..Len(scores) |-> Exact(Zero)]      \* np.zeros_like(scores)
    ELSE [i \in 1..Len(scores) |->
            fuse([c \in 1..Len(self.ivaps) |->
                     ivap_predict_intervall(self.ivaps[c], <<scores[i]>>)[1]])]

CvapFit(d) ==
    /\ cvap' = CvapFitted(cvap, d)
    /\ out' = [op |-> "cvap.fit", arg |-> <<>>,
               status |-> CvapFitStatus(cvap, d), value |-> <<>>]
    /\ UNCHANGED <<ivap, cal, data, caldata>>

CvapPredictProba(scores) ==
    /\ out' = IF ~cvap.fitted
              THEN [op |-> "cvap.predict_proba", arg |-> scores,
                    status |-> "NotFittedError", value |-> <<>>]
              ELSE [op |-> "cvap.predict_proba", arg |-> scores,
                    status |-> "ok", value |-> cvap_predict_proba(cvap, scores)]
    /\ UNCHANGED <<ivap, cvap, cal, data, caldata>>

----------------------------------------------------------------------------
(* _Calibrator, with method "ivap" or "cvap" (the sigmoid and isotonic      *)
(* calibrators are other modules).  Classes are 1..C, the estimator's score *)
(* matrix has one column per class.  For "cvap" the score a fold model      *)
(* gives a calibration sample in the one-vs-rest problem of class c is      *)
(* taken from column c of the matrix.                                       *)

CalibratorInit(method, n_folds) ==
    [method |-> method, n_folds |-> n_folds, multiclass |-> FALSE,
     attrs |-> {"estimator", "method_params", "classes_", "multiclass", "method"},
     calibrators |-> <<>>]

\* _create_calibrator
create_calibrator(self) ==
    IF self.method = "ivap" THEN IvapInit ELSE CvapInit(self.n_folds)

\* calibrator.fit(labels, split, X): the status and the calibrator afterwards
calibrator_fit_status(self, c, labels, split) ==
    IF self.method = "ivap"
    THEN (IF IvapFitAsserts(labels) THEN "ok" ELSE "AssertionError")
    ELSE CvapFitStatus(c, [i \in 1..Len(labels) |-> <<split[i], labels[i]>>])

calibrator_fitted(self, c, labels, split) ==
    IF self.method = "ivap" THEN IvapFitted(c, labels, split)
    ELSE CvapFitted(c, [i \in 1..Len(labels) |-> <<split[i], labels[i]>>])

\* label_binarizer.fit_transform(y).T[idx], idx counted from 1
binary_labels(y, idx) == [i \in 1..Len(y) |-> IF y[i] = idx THEN 1 ELSE 0]

\* label_encoder.fit_transform(y): classes 1, 2 become 0, 1
encoded_labels(y) == [i \in 1..Len(y) |-> y[i] - 1]

column(scores, idx) == [i \in 1..Len(scores) |-> scores[i][idx]]

\* "for idx, split in enumerate(score_splits)": stops at the first fit that raises
RECURSIVE cal_fit_loop(_, _, _, _, _)
cal_fit_loop(self, calibrators, y, scores, idx) ==
    IF idx > Len(scores[1]) THEN [calibrators |-> calibrators, status |-> "ok"]
    ELSE LET labels == binary_labels(y, idx)
             split == column(scores, idx)
             st == calibrator_fit_status(self, create_calibrator(self), labels, split)
         IN  IF st # "ok" THEN [calibrators |-> calibrators, status |-> st]
             ELSE cal_fit_loop(self,
                      Append(calibrators,
                             calibrator_fitted(self, create_calibrator(self), labels, split)),
                      y, scores, idx + 1)

\* what fit does: the calibrators it leaves and whether it raised
calibrator_fit(self, y, scores) ==
    IF Len(scores[1]) > 2
    THEN cal_fit_loop(self, <<>>, y, scores, 1)
    ELSE LET labels == encoded_labels(y)
             split == column(scores, 2)
             st == calibrator_fit_status(self, create_calibrator(self), labels, split)
         IN  IF st # "ok" THEN [calibrators |-> <<>>, status |-> st]
             ELSE [calibrators |->
                       <<calibrator_fitted(self, create_calibrator(self), labels, split)>>,
                   status |-> "ok"]

\* self.calibrators[idx].predict_proba(split) for a fitted calibrator
calibrator_predict(self, c, split) ==
    IF self.method = "ivap"
    THEN LET v == ivap_predict_proba(c, split) IN [i \in 1..Len(split) |-> Exact(v[i])]
    ELSE cvap_predict_proba(c, split)

\* 1.0 - v
complement(v) ==
    IF v.exact THEN Exact(FSub(One, v.val))
    ELSE [v EXCEPT !.p1 = v.q0, !.q0 = v.p1]

RECURSIVE FSum(_)
FSum(s) == IF s = <<>> THEN Zero ELSE FAdd(Head(s), FSum(Tail(s)))

\* probabilities /= probabilities.sum(axis=1, keepdims=True), for one row
normalize(row) ==
    IF \A c \in 1..Len(row) : row[c].exact
    THEN LET total == FSum([c \in 1..Len(row) |-> row[c].val])
         IN  [c \in 1..Len(row) |-> Exact(FDiv(row[c].val, total))]
    ELSE [c \in 1..Len(row) |-> [row[c] EXCEPT !.over = row]]

\* the matrix predict_proba returns for the test score rows X
calibrator_predict_proba(self, X) ==
    IF self.multiclass
    THEN [r \in 1..Len(X) |->
            normalize([idx \in 1..Len(X[r]) |->
                calibrator_predict(self, self.calibrators[idx], <<X[r][idx]>>)[1]])]
    ELSE [r \in 1..Len(X) |->
            LET v == calibrator_predict(self, self.calibrators[1], <<X[r][2]>>)[1]
            IN  <<complement(v), v>>]

\* the exception predict_proba raises, or "ok"
calibrator_predict_status(self, X) ==
    IF "calibrators" \notin self.attrs THEN "AttributeError"
    ELSE IF Len(self.calibrators) < (IF self.multiclass THEN Len(X[1]) ELSE 1)
         THEN "IndexError"
    ELSE "ok"

CalFit(d) ==
    LET res == calibrator_fit(cal, d.y, d.scores)
    IN  /\ cal' = [cal EXCEPT !.multiclass = @ \/ Len(d.scores[1]) > 2,
                              !.attrs = @ \cup {"calibrators"}
                                          \cup (IF Len(d.scores[1]) > 2 THEN {}
                                                ELSE {"label_encoder"}),
                              !.calibrators = res.calibrators]
        /\ out' = [op |-> "calibrator.fit", arg |-> <<>>, status |-> res.status,
                   value |-> <<>>]
        /\ UNCHANGED <<ivap, cvap, data, caldata>>

CalPredictProba(X) ==
    /\ out' = IF calibrator_predict_status(cal, X) # "ok"
              THEN [op |-> "calibrator.predict_proba", arg |-> X,
                    status |-> calibrator_predict_status(cal, X), value |-> <<>>]
              ELSE [op |-> "calibrator.predict_proba", arg |-> X,
                    status |-> "ok", value |-> calibrator_predict_proba(cal, X)]
    /\ UNCHANGED <<ivap, cvap, cal, data, caldata>>

\* no instance of the class was constructed
NoIvap == [IvapInit EXCEPT !.attrs = {}]
NoCvap == [CvapInit(0) EXCEPT !.attrs = {}]
NoCalibrator == [CalibratorInit("none", 0) EXCEPT !.attrs = {}]
NoCalData == [y |-> <<>>, scores |-> <<>>]

----------------------------------------------------------------------------
(* Inputs *)

\* calibration sets: (score, label) pairs in any order, n >= 1
SeqsUpTo(S, n) == UNION {[1..m -> S] : m \in 1..n}

CalSets == SeqsUpTo(Scores \X Labels, MaxN)

\* arrays of test scores handed to an IVAP predict call (it works elementwise)
TestInputs == {<<s>> : s \in TestScores}

NoOut == [op |-> "none", arg |-> <<>>, status |-> "ok", value |-> <<>>]

----------------------------------------------------------------------------
(* Spec: one IVAP instance and the calibration set its caller holds *)

Init ==
    /\ ivap = IvapInit
    /\ cvap = NoCvap
    /\ cal = NoCalibrator
    /\ data \in CalSets
    /\ caldata = NoCalData
    /\ out = NoOut

Next ==
    \/ IvapFit(data)
    \/ \E t \in TestInputs : IvapPredictProba(t)
    \/ \E t \in TestInputs : IvapPredictIntervall(t)

Spec == Init /\ [][Next]_vars

----------------------------------------------------------------------------
(* SpecCV: one CVAP instance and the calibration set its caller holds *)

MaxFolds == 3      \* n_folds ranges over 2..MaxFolds
CvMaxN == 4        \* calibration pairs handed to CVAP.fit
CvMaxScore == 1    \* scores the fold models give: 1..CvMaxScore

CvCalSets == SeqsUpTo((1..CvMaxScore) \X Labels, CvMaxN)

\* arrays of test scores: the first m of 0, 1, ..., CvMaxScore + 1
CvTestInputs == {[i \in 1..m |-> i - 1] : m \in 0..(CvMaxScore + 2)}

InitCV ==
    /\ ivap = NoIvap
    /\ cvap \in {CvapInit(n) : n \in 2..MaxFolds}
    /\ cal = NoCalibrator
    /\ data \in CvCalSets
    /\ caldata = NoCalData
    /\ out = NoOut

NextCV ==
    \/ CvapFit(data)
    \/ \E t \in CvTestInputs : CvapPredictProba(t)

SpecCV == InitCV /\ [][NextCV]_vars

----------------------------------------------------------------------------
(* SpecCal: one _Calibrator over an estimator with 2 or 3 classes, and the  *)
(* calibration set its caller holds                                         *)

MaxClasses == 3    \* columns of the estimator's score matrix: 2..MaxClasses
CalN == 3          \* calibration samples handed to _Calibrator.fit
Units == 2         \* a score row is a probability vector in steps of 1 / Units

\* rows of estimator.predict_proba: C scores that sum to one
ScoreRows(C) == {r \in [1..C -> 0..Units] : SumSeq(r) = Units}

\* calibration sets in which every class occurs
CalData(C) ==
    {[y |-> y, scores |-> sc] :
        y \in {l \in [1..CalN -> 1..C] : Range(l) = 1..C},
        sc \in [1..CalN -> ScoreRows(C)]}

InitCal ==
    /\ ivap = NoIvap
    /\ cvap = NoCvap
    /\ cal \in {CalibratorInit("ivap", 0)} \cup {CalibratorInit("cvap", n) : n \in 2..MaxFolds}
    /\ data = <<>>
    /\ caldata \in UNION {CalData(C) : C \in 2..MaxClasses}
    /\ out = NoOut

NextCal ==
    \/ CalFit(caldata)
    \/ \E row \in ScoreRows(Len(caldata.scores[1])) : CalPredictProba(<<row>>)

SpecCal == InitCal /\ [][NextCal]_vars

----------------------------------------------------------------------------
(* SpecRefit: one instance, IVAP or CVAP, whose caller may call fit again   *)
(* with any calibration set                                                 *)

RefitMaxN == 4       \* calibration pairs per fit call
RefitMaxScore == 1   \* scores 1..RefitMaxScore

\* the pairs come ordered by score, then label
InOrder(d) ==
    \A i \in 1..(Len(d) - 1) :
        d[i][1] < d[i + 1][1] \/ (d[i][1] = d[i + 1][1] /\ d[i][2] <= d[i + 1][2])

RefitSets == {d \in SeqsUpTo((1..RefitMaxScore) \X Labels, RefitMaxN) : InOrder(d)}

RefitTestInputs == {<<s>> : s \in 0..(RefitMaxScore + 1)}

InitRefit ==
    /\ \/ ivap = IvapInit /\ cvap = NoCvap
       \/ ivap = NoIvap /\ cvap \in {CvapInit(n) : n \in 2..MaxFolds}
    /\ cal = NoCalibrator
    /\ data = <<>>
    /\ caldata = NoCalData
    /\ out = NoOut

IsIvap == "fitted" \in ivap.attrs
IsCvap == "fitted" \in cvap.attrs

NextRefit ==
    \/ \E d \in RefitSets : IsIvap /\ IvapFit(d)
    \/ \E t \in RefitTestInputs : IsIvap /\ IvapPredictProba(t)
    \/ \E t \in RefitTestInputs : IsIvap /\ IvapPredictIntervall(t)
    \/ \E d \in RefitSets : IsCvap /\ CvapFit(d)
    \/ \E t \in RefitTestInputs : IsCvap /\ CvapPredictProba(t)

SpecRefit == InitRefit /\ [][NextRefit]_vars

----------------------------------------------------------------------------
(* Properties of the IVAP, checked under Spec *)

FLess(a, b) == FLeq(a, b) /\ a # b

\* the locals of the fit call that produced the fitted instance
Loc == FitLocals(YOf(data), ScoresOf(data))

FitDone == out.op = "ivap.fit" /\ out.status = "ok"

\* C1: the stored F0 and F1 (indices 0..k) are each non-decreasing in the
\* index, and F0[i] <= F1[i] at every index.
C1_EnvelopesOrdered ==
    ivap.fitted =>
        LET k == ivap.k_distinct
        IN  /\ k >= 1
            /\ DOMAIN ivap.F0 = 0..k
            /\ DOMAIN ivap.F1 = 0..k
            /\ \A i \in 0..(k - 1) :
                   FLeq(ivap.F0[i], ivap.F0[i + 1]) /\ FLeq(ivap.F1[i], ivap.F1[i + 1])
            /\ \A i \in 0..k : FLeq(ivap.F0[i], ivap.F1[i])

C1_Witness ==
    /\ FitDone
    /\ ivap.k_distinct >= 2
    /\ \E i \in 1..ivap.k_distinct : FLess(ivap.F0[i], ivap.F1[i])
    /\ \E i \in 1..(ivap.k_distinct - 1) :
           FLess(ivap.F0[i], ivap.F0[i + 1]) /\ FLess(ivap.F1[i], ivap.F1[i + 1])

\* C2: on a fitted IVAP the point estimate p1 / (1 - p0 + p1) of every test
\* score is defined and lies within the pair (p0, p1) that predict_intervall
\* returns for the same score.
C2_PointWithinInterval ==
    (out.op = "ivap.predict_proba" /\ ivap.fitted) =>
        /\ out.status = "ok"
        /\ Len(out.value) = Len(out.arg)
        /\ \A i \in 1..Len(out.arg) :
               LET pr == ivap_predict_intervall(ivap, out.arg)[i]
               IN  /\ IsFinite(out.value[i])
                   /\ FLeq(pr[1], out.value[i])
                   /\ FLeq(out.value[i], pr[2])

C2_Witness ==
    /\ out.op = "ivap.predict_proba"
    /\ out.status = "ok"
    /\ LET pr == ivap_predict_intervall(ivap, out.arg)[1]
       IN  FLess(pr[1], out.value[1]) /\ FLess(out.value[1], pr[2])

\* C3: every predict-family call made on an instance that has not been fitted
\* fails with NotFittedError.
C3_UnfittedPredictRaisesNotFitted ==
    (out.op \in {"ivap.predict_proba", "ivap.predict_intervall"} /\ ~ivap.fitted) =>
        out.status = "NotFittedError"

\* C8: predict_proba is monotone in the raw score: a test score at most the
\* one just predicted gets at most its probability, one at least as large
\* gets at least its probability.
C8_PredictMonotone ==
    (out.op = "ivap.predict_proba" /\ out.status = "ok") =>
        \A t \in TestScores :
            LET pt == ivap_predict_proba(ivap, <<t>>)[1]
            IN  /\ t <= out.arg[1] => FLeq(pt, out.value[1])
                /\ t >= out.arg[1] => FLeq(out.value[1], pt)

C8_Witness ==
    /\ out.op = "ivap.predict_proba"
    /\ out.status = "ok"
    /\ \E t \in TestScores :
           t < out.arg[1] /\ FLess(ivap_predict_proba(ivap, <<t>>)[1], out.value[1])
    /\ \E t \in TestScores :
           t > out.arg[1] /\ FLess(out.value[1], ivap_predict_proba(ivap, <<t>>)[1])

\* C9: deduplication yields k <= n strictly increasing unique scores whose
\* weights sum to n, and the cumulative-sum diagram has k + 1 points with
\* x_0 = 0, x strictly increasing up to n and y non-decreasing up to the
\* number of positive labels.
C9_DedupAndDiagram ==
    FitDone =>
        LET n == Len(data)
            loc == Loc
            k == loc.k_distinct
            u == loc.unique_elements
            w == loc.unique_element_counts
            csd == loc.csd
        IN  /\ ivap.k_distinct = k
            /\ ivap.unique_elements = u
            /\ k >= 1 /\ k <= n
            /\ Len(u) = k /\ Len(w) = k
            /\ Range(u) = Range(ScoresOf(data))
            /\ \A j \in 1..(k - 1) : u[j] < u[j + 1]
            /\ \A j \in 1..k : w[j] >= 1
            /\ SumSeq(w) = n
            /\ DOMAIN csd = 0..k
            /\ csd[0] = <<0, 0>>
            /\ \A i \in 1..k : csd[i - 1][1] < csd[i][1] /\ csd[i - 1][2] <= csd[i][2]
            /\ csd[k][1] = n
            /\ csd[k][2] = Cardinality({i \in 1..n : data[i][2] = 1})

C9_Witness ==
    /\ FitDone
    /\ ivap.k_distinct >= 2
    /\ ivap.k_distinct < Len(data)
    /\ \E i \in 1..Len(data) : data[i][2] = 1
    /\ \E i \in 1..Len(data) : data[i][2] # 1

\* the stack is an ordered subsequence of the scanned points pts (pts has
\* pairwise distinct x, scanned in the order pts[1], pts[2], ...)
OrderedSubsequence(stack, pts) ==
    /\ \A i, h \in 1..Len(pts) : i # h => pts[i][1] # pts[h][1]
    /\ \A j \in 1..Len(stack) : \E i \in 1..Len(pts) : pts[i] = stack[j]
    /\ \A j \in 1..(Len(stack) - 1) :
           \E i, h \in 1..Len(pts) : i < h /\ pts[i] = stack[j] /\ pts[h] = stack[j + 1]

\* the points of a 0-based list in scan order: left to right ...
Scanned(csd) == [i \in 1..Size(csd) |-> csd[i - 1]]

\* ... and mirrored: right to left, the sign of every turn negated
Reflect(p) == <<p[1], -p[2]>>
Mirrored(csd) == [i \in 0..(Size(csd) - 1) |-> Reflect(csd[Size(csd) - 1 - i])]

\* C10: each seeded stack is an ordered subsequence of the scanned points
\* from the first to the last scanned point, has at least two points and no
\* three consecutive points making a disallowed turn (cross product <= 0 for
\* F1, >= 0 for F0); the F0 builder is the F1 builder on the reversed points
\* with the turn test negated.
C10_SeededStacksConvex ==
    FitDone =>
        LET loc == Loc
            s1 == loc.f1_stack
            s0 == loc.f0_stack
            c1 == Scanned(loc.csd_1)
            c0 == Reverse(Scanned(loc.csd_0))
        IN  /\ Len(s1) >= 2 /\ Len(s0) >= 2
            /\ s1[1] = c1[1] /\ s1[Len(s1)] = c1[Len(c1)]
            /\ s0[1] = c0[1] /\ s0[Len(s0)] = c0[Len(c0)]
            /\ OrderedSubsequence(s1, c1)
            /\ OrderedSubsequence(s0, c0)
            /\ \A j \in 1..(Len(s1) - 2) : cross(s1[j], s1[j + 1], s1[j + 2]) > 0
            /\ \A j \in 1..(Len(s0) - 2) : cross(s0[j], s0[j + 1], s0[j + 2]) < 0
            /\ \A csd \in {loc.csd_0, loc.csd_1} :
                   LET m1 == initialize_f1_corners(Mirrored(csd))
                   IN  initialize_f0_corners(csd) = [j \in 1..Len(m1) |-> Reflect(m1[j])]

C10_Witness ==
    /\ FitDone
    /\ LET loc == Loc
       IN  /\ Len(loc.f1_stack) >= 3
           /\ Len(loc.f1_stack) < Size(loc.csd_1)
           /\ Len(loc.f0_stack) >= 3
           /\ Len(loc.f0_stack) < Size(loc.csd_0)

----------------------------------------------------------------------------
(* Properties of the CVAP, checked under SpecCV *)

\* the samples of d in the calibration split of fold f (in_cal) or in its training split
SplitOf(d, f, n_folds, in_cal) ==
    LET folds == test_folds(YOf(d), n_folds)
    IN  take(d, folds, f, in_cal, 1)

\* fold f has both labels in its training split and in its calibration split
FoldUsable(d, f, n_folds) ==
    /\ Cardinality(Range(YOf(SplitOf(d, f, n_folds, FALSE)))) = 2
    /\ Cardinality(Range(YOf(SplitOf(d, f, n_folds, TRUE)))) = 2

\* what fit retains when it returns: one IVAP per usable fold, in fold order
RetainsUsableFolds ==
    LET n == cvap.n_folds
        usable == SortedSeq({f \in 0..(n - 1) : FoldUsable(data, f, n)})
    IN  /\ cvap.fitted
        /\ Len(cvap.ivaps) = Len(usable)
        /\ \A j \in 1..Len(usable) :
               LET c == SplitOf(data, usable[j], n, TRUE)
               IN  /\ cvap.ivaps[j].fitted
                   /\ cvap.ivaps[j] = IvapFitted(IvapInit, YOf(c), ScoresOf(c))
        /\ (\E f \in 0..(n - 1) : ~FoldUsable(data, f, n)) => Len(cvap.ivaps) < n

\* C5: fit on binary-labelled data completes without raising, and the list
\* it retains holds exactly one fitted IVAP per fold whose training and
\* calibration splits both have two distinct labels, in fold order, so fewer
\* than n_folds when a fold is single-class.
C5_FitCompletesAndKeepsUsableFolds ==
    (out.op = "cvap.fit" /\ Cardinality(Range(YOf(data))) = 2) =>
        out.status = "ok" /\ RetainsUsableFolds

\* what of C5 holds of every fit call that returns
C5_ReturnedFitKeepsUsableFolds ==
    (out.op = "cvap.fit" /\ out.status = "ok") => RetainsUsableFolds

C5_SomeFoldsDropped ==
    /\ out.op = "cvap.fit"
    /\ out.status = "ok"
    /\ Len(cvap.ivaps) >= 1
    /\ Len(cvap.ivaps) < cvap.n_folds

\* C6: when fit dropped every fold it still leaves the instance fitted, and
\* predict_proba then returns zeros, one per input score, instead of raising.
C6_AllFoldsDroppedGivesZeros ==
    /\ (out.op = "cvap.fit" /\ out.status = "ok") => cvap.fitted
    /\ (out.op = "cvap.predict_proba" /\ cvap.fitted /\ Len(cvap.ivaps) = 0) =>
           /\ out.status = "ok"
           /\ out.value = [i \in 1..Len(out.arg) |-> Exact(Zero)]

C6_Witness ==
    /\ out.op = "cvap.predict_proba"
    /\ cvap.fitted
    /\ Len(cvap.ivaps) = 0
    /\ Len(out.arg) >= 2
    /\ Len(out.value) = Len(out.arg)

----------------------------------------------------------------------------
(* Properties of the dispatcher, checked under SpecCal *)

IsZeroValue(v) == IF v.exact THEN v.val = Zero ELSE v.p1 = Zero

\* the entries of a returned row add up to 1.0
RowSumsToOne(row) ==
    IF \A c \in 1..Len(row) : row[c].exact
    THEN FSum([c \in 1..Len(row) |-> row[c].val]) = One
    ELSE \E c \in 1..Len(row) : ~IsZeroValue(row[c].over[c])

\* C4: in multiclass mode every row predict_proba returns sums to 1.0, also
\* when every per-class calibrator returns 0.
C4_MulticlassRowsSumToOne ==
    (out.op = "calibrator.predict_proba" /\ out.status = "ok" /\ cal.multiclass) =>
        \A r \in 1..Len(out.value) : RowSumsToOne(out.value[r])

----------------------------------------------------------------------------
(* Properties of refitting, checked under SpecRefit *)

PredictOps == {"ivap.predict_proba", "ivap.predict_intervall", "cvap.predict_proba"}

\* C7 as stated: once fitted, the fitted state is never changed again, not
\* by a predict call and not by a later fit call.
C7_FittedStateNeverChanges ==
    [][(ivap.fitted => ivap' = ivap) /\ (cvap.fitted => cvap' = cvap)]_vars

\* C7 as amended: a fitted instance never becomes unfitted again, and the
\* predict calls never change the fitted state (a later fit may replace it).
C7_FittedStaysAndPredictIsPure ==
    [][/\ ivap.fitted => ivap'.fitted
       /\ cvap.fitted => cvap'.fitted
       /\ out'.op \in PredictOps => (ivap' = ivap /\ cvap' = cvap)]_vars

C7_Witness ==
    /\ cvap.fitted
    /\ Len(cvap.ivaps) >= 2
    /\ out.op = "cvap.fit"
    /\ out.status = "AssertionError"

====
